---------------------------- MODULE Spec2Model ----------------------------
(***************************************************************************)
(* The session synchronization hook useAuth (src/src/hooks/useAuth.ts):    *)
(* the AuthState it owns, the effect that initializes it and subscribes    *)
(* to the change stream, the change-stream handler, and the mutation       *)
(* operations signIn / signUp / signOut / updateProfile / resetPassword.   *)
(*                                                                         *)
(* Execution is one event loop: code between two awaits is one action.     *)
(* An await of an external call (identity service, profile service)        *)
(* suspends the task; the task's continuation is a later action whose      *)
(* outcome (value, error value, thrown fault) the environment chooses.     *)
(* authState is the value kept by React's setAuthState: every call of the  *)
(* setter is a write of the variable.                                      *)
(***************************************************************************)
EXTENDS Naturals, FiniteSets, Bags, TLC

(***************************************************************************)
(* Bounds.                                                                 *)
(***************************************************************************)
\* suspended change-stream handler continuations at any one time
MaxHandlers == 1

\* suspended mutation operations at any one time
MaxMutations == 1

(***************************************************************************)
(* Values.                                                                 *)
(***************************************************************************)
NULL == "null"

\* identities the identity service can return (session.user / data.user)
Users == {"u1"}

\* user.id of the synthesized offline identity
DemoUserId == "demo-user-id"

\* a profile value is a record; `null` is NoProfile
NoProfile == [id |-> NULL, rev |-> "null"]

\* the row getCurrentUserProfile resolves to for the session of user u
DbProfile(u) == [id |-> u, rev |-> "db"]

\* the row .update(updates).eq('id', u).select().single() resolves to
UpdatedProfile(u) == [id |-> u, rev |-> "updated"]

\* the object literal demoProfile built by signIn
demoProfile == [id |-> DemoUserId, rev |-> "demo"]

\* JSON.parse('{}'): an object with no id
EmptyObject == [id |-> NULL, rev |-> "empty"]

\* error strings written to authState.error / returned in {success:false}
\* (ErrNotConfigured stands for the fixed message of useAuth.ts:272)
ErrNotConfigured == "Supabase is not configured"
ErrUnknown == "Unknown error occurred"
ErrNotAuthenticated == "User not authenticated"
\* (ErrDemoLogin stands for the fixed message of useAuth.ts:264)
ErrDemoLogin == "demo login failed"
ErrService == "error.message"
ErrThrown == "thrown.message"

(***************************************************************************)
(* localStorage: each key holds nothing, a string JSON.parse rejects, or   *)
(* the JSON.stringify of a value.                                          *)
(***************************************************************************)
Absent == [kind |-> "absent", val |-> NoProfile]
Corrupt == [kind |-> "corrupt", val |-> NoProfile]

\* JSON.stringify(v)
JSONstringify(v) == [kind |-> "json", val |-> v]

\* JSON.parse(s) throws a SyntaxError
JSONparseThrows(s) == s.kind = "corrupt"

\* JSON.parse(s) for a string it accepts
JSONparse(s) == s.val

\* the demoSession object of signIn, reduced to its user ({id, email,
\* email_confirmed_at}); a user is carried as a profile-shaped record so
\* that every localStorage value has one shape
demoSession == [id |-> DemoUserId, rev |-> "session"]

\* the pair an earlier run of signIn left in localStorage: the same literals
\* with the timestamps (created_at, updated_at, email_confirmed_at) of then
earlierProfile == [id |-> DemoUserId, rev |-> "demo-earlier"]
earlierSession == [id |-> DemoUserId, rev |-> "session-earlier"]

emptyStore == [demoMode |-> "absent", demoSession |-> Absent, userProfile |-> Absent]

(***************************************************************************)
(* import.meta.env                                                         *)
(***************************************************************************)
Urls == {"", "https://demo.supabase.co", "https://proj.supabase.co"}
Keys == {"", "anon-key"}

\* supabaseUrl.includes('demo')
IncludesDemo(url) == url = "https://demo.supabase.co"

\* !x for a string
Falsy(x) == x = ""

VARIABLES
    authState,    \* the AuthState of useState
    phase,        \* "constructed" (useState ran) | "active" (effect ran) | "disposed"
    mounted,      \* the effect's closure flag
    store,        \* localStorage: demoMode, demoSession, userProfile
    env,          \* VITE_SUPABASE_URL, VITE_SUPABASE_ANON_KEY
    svcUser,      \* the identity service's current session user, or NULL
    initPc,       \* getInitialSession: "idle" | "getSession" | "profile" | "done"
    initUser,     \* session.user held by getInitialSession across the profile fetch
    initCalls,    \* external calls getInitialSession has made in this activation
    sub,          \* subscription: "none" | "active" | "failed" | "closed"
    cleanupDue,   \* the effect's cleanup ran and cleanup.then(...) has not yet
    unsubs,       \* calls of subscription.unsubscribe() in this activation
    pending,      \* bag of suspended handler and mutation continuations
    currentView,  \* AuthWrapper's currentView (AuthWrapper.tsx line 12)
    last          \* history: what the last step did (see Step)

vars == <<authState, phase, mounted, store, env, svcUser, initPc, initUser,
          initCalls, sub, cleanupDue, unsubs, pending, currentView, last>>

(***************************************************************************)
(* AuthState writes.                                                       *)
(***************************************************************************)
\* useState's initial value
InitialAuthState == [user |-> NULL, profile |-> NoProfile, loading |-> TRUE, error |-> NULL]

\* setAuthState({user: null, profile: null, loading: false, error: null})
SignedOutState == [user |-> NULL, profile |-> NoProfile, loading |-> FALSE, error |-> NULL]

\* setAuthState({user: u, profile: p, loading: false, error: null})
SettledState(u, p) == [user |-> u, profile |-> p, loading |-> FALSE, error |-> NULL]

\* setAuthState(prev => ({ ...prev, loading: true, error: null }))
Entering(prev) == [prev EXCEPT !.loading = TRUE, !.error = NULL]

\* mutant: the failure write replaces the state instead of merging into it
Failing_Resets(prev, msg) == [SignedOutState EXCEPT !.error = msg]

\* setAuthState(prev => ({ ...prev, loading: false, error: msg }))
Failing(prev, msg) == [prev EXCEPT !.loading = FALSE, !.error = msg]

(***************************************************************************)
(* History.  `last` is a history variable: under TracedSpec it reports     *)
(* what the last step did (its label, the {success, error} a mutation      *)
(* returned in that step, the external calls that invocation made); under  *)
(* Spec it stays Untraced.  No action reads it otherwise.                   *)
(***************************************************************************)
Untraced == [op |-> "untraced", ret |-> "n/a", err |-> NULL, calls |-> {}]

Step(op, ret, err, calls) ==
    IF last = Untraced THEN Untraced
    ELSE [op |-> op, ret |-> ret, err |-> err, calls |-> calls]

Did(op) == Step(op, "n/a", NULL, {})


(***************************************************************************)
(* External services (lib/supabase is not part of the sources read here).  *)
(***************************************************************************)
\* a rejected promise of getCurrentUserProfile
Rejected == [id |-> NULL, rev |-> "rejected"]

\* what getCurrentUserProfile() can settle to: it takes no argument and
\* reads the profile of the service's current session; it may always reject
ProfileResults(su) == {Rejected} \cup (IF su = NULL THEN {} ELSE {DbProfile(su)})

\* how a call of the identity service or of the profile table can end:
\* {error: null}, {error}, or a thrown fault
Outcomes == {"ok", "error", "thrown"}

(***************************************************************************)
(* getInitialSession, lines 23-139.                                        *)
(***************************************************************************)
\* demoMode === 'true' && demoSession
HasOfflineSession(st) == st.demoMode = "true" /\ st.demoSession.kind # "absent"

\* JSON.parse(demoSession) or JSON.parse(getItem('userProfile') || '{}') throws
OfflineParseFails(st) ==
    JSONparseThrows(st.demoSession) \/ JSONparseThrows(st.userProfile)

\* mutant: no '{}' default, a missing snapshot parses to null
CachedProfile_NoDefault(st) == JSONparse(st.userProfile)

\* JSON.parse(localStorage.getItem('userProfile') || '{}')
CachedProfile(st) ==
    IF st.userProfile.kind = "absent" THEN EmptyObject ELSE JSONparse(st.userProfile)

\* session.user of the parsed demoSession
CachedUser(st) == JSONparse(st.demoSession).id

\* mutant: removeItem('userProfile') is missing
ClearedStore_KeepsProfile(st) ==
    [st EXCEPT !.demoMode = "absent", !.demoSession = Absent]

\* removeItem('demoMode'); removeItem('demoSession'); removeItem('userProfile')
ClearedStore(st) ==
    [st EXCEPT !.demoMode = "absent", !.demoSession = Absent, !.userProfile = Absent]

\* mutant: the key is not checked, as in checkSupabaseConnection
InitConfigured_NoKey(e) == ~(Falsy(e.url) \/ IncludesDemo(e.url))

\* !(!supabaseUrl || !supabaseKey || supabaseUrl.includes('demo'))
InitConfigured(e) == ~(Falsy(e.url) \/ Falsy(e.key) \/ IncludesDemo(e.url))

\* checkSupabaseConnection: !(!supabaseUrl || supabaseUrl.includes('demo'))
ConnConfigured(e) == ~(Falsy(e.url) \/ IncludesDemo(e.url))

\* if (mounted) setAuthState(new)
GuardedWrite(m, prev, new) == IF m THEN new ELSE prev

\* getInitialSession adopts the offline session
AdoptsOffline(st) == HasOfflineSession(st) /\ ~OfflineParseFails(st)

\* the store after getInitialSession's offline check
StoreAfterOfflineCheck(st) ==
    IF HasOfflineSession(st) /\ OfflineParseFails(st) THEN ClearedStore(st) ELSE st

\* authState after the synchronous part of getInitialSession (up to its
\* return or its first await)
InitSyncState(st, e, m, prev) ==
    IF AdoptsOffline(st)
    THEN GuardedWrite(m, prev, SettledState(CachedUser(st), CachedProfile(st)))
    ELSE IF ~InitConfigured(e)
         THEN GuardedWrite(m, prev, SignedOutState)
         ELSE prev

\* mutant: getInitialSession is deferred, the effect subscribes first
InitSyncPc_Deferred(st, e) == "idle"

\* where getInitialSession stands after its synchronous part
InitSyncPc(st, e) ==
    IF AdoptsOffline(st) \/ ~InitConfigured(e) THEN "done" ELSE "getSession"

\* the subscription after checkSupabaseConnection; registering may throw
SubscriptionAfter(e, throws) ==
    IF ~ConnConfigured(e) THEN "none" ELSE IF throws THEN "failed" ELSE "active"

(***************************************************************************)
(* The state after construction.                                           *)
(***************************************************************************)
\* localStorage at the first activation: empty, or the presence flag with
\* any mix of absent, unparseable and well-formed entries (without the flag
\* getInitialSession reads neither entry)
StoreValues ==
    {emptyStore} \cup
    [demoMode : {"true"},
     demoSession : {Absent, Corrupt, JSONstringify(earlierSession)},
     userProfile : {Absent, Corrupt, JSONstringify(earlierProfile)}]

Constructed ==
    /\ authState = InitialAuthState
    /\ phase = "constructed"
    /\ mounted = TRUE
    /\ store \in StoreValues
    /\ env \in [url : Urls, key : Keys]
    /\ svcUser \in {NULL} \cup Users
    /\ initPc = "idle"
    /\ initUser = NULL
    /\ initCalls = {}
    /\ sub = "none"
    /\ cleanupDue = FALSE
    /\ unsubs = 0
    /\ pending = EmptyBag
    /\ currentView = "login"

Init == Constructed /\ last = Untraced

TracedInit ==
    Constructed /\ last = [op |-> "construct", ret |-> "n/a", err |-> NULL, calls |-> {}]

(***************************************************************************)
(* The effect, lines 20-216: getInitialSession() up to its first await,    *)
(* then checkSupabaseConnection(), which has no await.                     *)
(***************************************************************************)
Activate ==
    /\ phase = "constructed"
    /\ phase' = "active"
    /\ mounted' = TRUE
    /\ store' = StoreAfterOfflineCheck(store)
    /\ authState' = InitSyncState(store, env, TRUE, authState)
    /\ initPc' = InitSyncPc(store, env)
    /\ initCalls' = IF InitSyncPc(store, env) = "getSession" THEN {"getSession"} ELSE {}
    /\ \E throws \in BOOLEAN : sub' = SubscriptionAfter(env, throws)
    /\ last' = Step("activate", "n/a", NULL,
                    (IF store' # store THEN {"removeItem"} ELSE {})
                    \cup (IF initPc' = "getSession" THEN {"getSession"} ELSE {})
                    \cup (IF ConnConfigured(env) THEN {"onAuthStateChange"} ELSE {}))
    /\ UNCHANGED <<env, svcUser, initUser, cleanupDue, unsubs, pending, currentView>>

\* mutant: a getSession error value or fault is surfaced in AuthState.error
AfterGetSession_SurfacesError(o, su, m, prev) ==
    IF o = "ok" /\ su # NULL THEN prev
    ELSE IF o = "ok" THEN GuardedWrite(m, prev, SignedOutState)
    ELSE GuardedWrite(m, prev,
             Failing(SignedOutState, IF o = "error" THEN ErrService ELSE ErrThrown))

\* mutant: no catch around getSession, a thrown fault writes nothing
AfterGetSession_Uncaught(o, su, m, prev) ==
    IF (o = "ok" /\ su # NULL) \/ o = "thrown"
    THEN prev
    ELSE GuardedWrite(m, prev, SignedOutState)

\* authState after `await supabase.auth.getSession()` settled with outcome o
\* while the service's session user is su: an error value (line 72), no
\* session (line 107) and a thrown fault (line 117) write the signed-out
\* state; a session goes on to the profile fetch
AfterGetSession(o, su, m, prev) ==
    IF o = "ok" /\ su # NULL THEN prev ELSE GuardedWrite(m, prev, SignedOutState)

\* the continuation of `await supabase.auth.getSession()`, lines 70-127
InitSessionReturns ==
    /\ initPc = "getSession"
    /\ \E o \in Outcomes :
        /\ authState' = AfterGetSession(o, svcUser, mounted, authState)
        /\ IF o = "ok" /\ svcUser # NULL
           THEN /\ initPc' = "profile"
                /\ initUser' = svcUser
                /\ initCalls' = initCalls \cup {"getCurrentUserProfile"}
           ELSE /\ initPc' = "done"
                /\ UNCHANGED <<initUser, initCalls>>
    /\ last' = Did("init:getSession")
    /\ UNCHANGED <<phase, mounted, store, env, svcUser, sub, cleanupDue, unsubs, pending, currentView>>

\* how an awaited getCurrentUserProfile() settled, for the history
Settled(r) == IF r = Rejected THEN "rejected" ELSE "resolved"

\* mutant: no inner try/catch, a rejected fetch lands in the catch of line 117
AfterInitProfile_OuterCatch(r, u, m, prev) ==
    GuardedWrite(m, prev, IF r = Rejected THEN SignedOutState ELSE SettledState(u, r))

\* authState after `await getCurrentUserProfile()` settled with r for the
\* session of user u: the profile (line 89), or null when it rejected (line 99)
AfterInitProfile(r, u, m, prev) ==
    GuardedWrite(m, prev, SettledState(u, IF r = Rejected THEN NoProfile ELSE r))

\* the continuation of `await getCurrentUserProfile()`, lines 87-106
InitProfileReturns ==
    /\ initPc = "profile"
    /\ \E r \in ProfileResults(svcUser) :
        /\ authState' = AfterInitProfile(r, initUser, mounted, authState)
        /\ last' = Step("init:profile", Settled(r), NULL, {})
    /\ initPc' = "done"
    /\ UNCHANGED <<phase, mounted, store, env, svcUser, initUser, initCalls, sub,
                   cleanupDue, unsubs, pending, currentView>>

(***************************************************************************)
(* Deactivation, lines 210-215.                                            *)
(***************************************************************************)
\* the effect's cleanup: mounted = false; cleanup.then(...) is queued
Unmount ==
    /\ phase = "active"
    /\ phase' = "disposed"
    /\ mounted' = FALSE
    /\ cleanupDue' = TRUE
    /\ last' = Did("unmount")
    /\ UNCHANGED <<authState, store, env, svcUser, initPc, initUser, initCalls, sub,
                   unsubs, pending, currentView>>

\* mutant: the cleanup drops the promise, nothing is unsubscribed
Teardown_Dropped ==
    /\ cleanupDue
    /\ cleanupDue' = FALSE
    /\ last' = Did("teardown")
    /\ UNCHANGED <<authState, phase, mounted, store, env, svcUser, initPc, initUser,
                   initCalls, sub, unsubs, pending, currentView>>

\* cleanup.then(fn => fn && fn()): fn is undefined (subscription skipped),
\* () => {} (registration threw) or () => subscription.unsubscribe()
Teardown ==
    /\ cleanupDue
    /\ cleanupDue' = FALSE
    /\ sub' = IF sub = "active" THEN "closed" ELSE sub
    /\ unsubs' = IF sub = "active" THEN unsubs + 1 ELSE unsubs
    /\ last' = Did("teardown")
    /\ UNCHANGED <<authState, phase, mounted, store, env, svcUser, initPc, initUser,
                   initCalls, pending, currentView>>

\* the component is rendered anew over the same localStorage and service:
\* a fresh useState; continuations of the previous activation have finished
Construct ==
    /\ phase = "disposed"
    /\ ~cleanupDue
    /\ initPc = "done"
    /\ pending = EmptyBag
    /\ authState' = InitialAuthState
    /\ phase' = "constructed"
    /\ mounted' = TRUE
    /\ initPc' = "idle"
    /\ initUser' = NULL
    /\ initCalls' = {}
    /\ sub' = "none"
    /\ unsubs' = 0
    /\ last' = Did("construct")
    /\ UNCHANGED <<store, env, svcUser, cleanupDue, pending, currentView>>

(***************************************************************************)
(* Suspended continuations: a record names the task, the await it is       *)
(* suspended at, and the user it carries across that await.                *)
(***************************************************************************)
Task(task, at, user) == [task |-> task, at |-> at, user |-> user]

Suspend(t) == pending (+) SetToBag({t})
Resume(t) == pending (-) SetToBag({t})
IsPending(t) == BagIn(t, pending)

HandlerTasks == {"SIGNED_IN", "TOKEN_REFRESHED"}
MutationTasks == {"signIn", "signUp", "signOut", "updateProfile", "resetPassword"}

\* the number of suspended tasks among `tasks`
Suspended(tasks) ==
    BagCardinality([t \in {x \in BagToSet(pending) : x.task \in tasks} |-> pending[t]])

\* a mutation operation is suspended
MutationPending == \E t \in BagToSet(pending) : t.task \in MutationTasks

(***************************************************************************)
(* The onAuthStateChange handler, lines 153-196.                           *)
(***************************************************************************)
Events == {"SIGNED_IN", "SIGNED_OUT", "TOKEN_REFRESHED", "USER_UPDATED"}

\* the handler fetches the profile: (SIGNED_IN | TOKEN_REFRESHED) && session?.user
\* mutant: the handler fetches the profile without looking at session?.user
HandlerFetches_IgnoresUser(m, ev, u) == m /\ ev \in HandlerTasks

HandlerFetches(m, ev, u) == m /\ ev \in HandlerTasks /\ u # NULL

\* mutant: SIGNED_OUT merged into the previous state like TOKEN_REFRESHED
HandlerSyncState_Merged(m, ev, prev) ==
    IF m /\ ev = "SIGNED_OUT"
    THEN [prev EXCEPT !.user = NULL, !.profile = NoProfile, !.error = NULL]
    ELSE prev

\* authState after the handler's synchronous part
HandlerSyncState(m, ev, prev) ==
    IF m /\ ev = "SIGNED_OUT" THEN SignedOutState ELSE prev

\* the identity service's session once it has emitted the event
SessionAfterEvent(ev, u, su) ==
    IF ev = "SIGNED_OUT" THEN NULL ELSE IF u # NULL THEN u ELSE su

\* mutant: SIGNED_IN merges user and profile into the previous state
HandlerAsyncState_MergesSignIn(task, u, r, prev) ==
    IF r = Rejected
    THEN (IF task = "SIGNED_IN" THEN [prev EXCEPT !.user = u, !.profile = NoProfile]
                                ELSE prev)
    ELSE [prev EXCEPT !.user = u, !.profile = r, !.error = NULL]

\* mutant: a rejected re-fetch on TOKEN_REFRESHED nulls the profile
HandlerAsyncState_NullOnReject(task, u, r, prev) ==
    IF task = "SIGNED_IN"
    THEN SettledState(u, IF r = Rejected THEN NoProfile ELSE r)
    ELSE IF r = Rejected
         THEN [prev EXCEPT !.profile = NoProfile]
         ELSE [prev EXCEPT !.user = u, !.profile = r, !.error = NULL]

\* authState after the handler's `await getCurrentUserProfile()`
HandlerAsyncState(task, u, r, prev) ==
    IF task = "SIGNED_IN"
    THEN SettledState(u, IF r = Rejected THEN NoProfile ELSE r)
    ELSE IF r = Rejected
         THEN prev
         ELSE [prev EXCEPT !.user = u, !.profile = r, !.error = NULL]

\* the change stream delivers event ev with session user u (NULL: no session)
Deliver(ev, u) ==
    /\ sub = "active"
    /\ ev = "SIGNED_OUT" => u = NULL
    /\ HandlerFetches(mounted, ev, u)
           => Suspended(HandlerTasks \cup {"draft:SIGNED_IN", "draft:TOKEN_REFRESHED"})
                  < MaxHandlers
    /\ svcUser' = SessionAfterEvent(ev, u, svcUser)
    /\ authState' = HandlerSyncState(mounted, ev, authState)
    /\ pending' = IF HandlerFetches(mounted, ev, u)
                  THEN Suspend(Task(ev, "profile", u))
                  ELSE pending
    /\ last' = Step(ev, "n/a", NULL,
                    IF HandlerFetches(mounted, ev, u) THEN {"getCurrentUserProfile"} ELSE {})
    /\ UNCHANGED <<phase, mounted, store, env, initPc, initUser, initCalls, sub,
                   cleanupDue, unsubs, currentView>>

\* the continuation of the handler's `await getCurrentUserProfile()`
HandlerProfileReturns(t) ==
    /\ IsPending(t)
    /\ t.task \in HandlerTasks
    /\ \E r \in ProfileResults(svcUser) :
        /\ authState' = HandlerAsyncState(t.task, t.user, r, authState)
        /\ last' = Step(IF t.task = "SIGNED_IN" THEN "SIGNED_IN:profile"
                                                ELSE "TOKEN_REFRESHED:profile",
                        Settled(r), NULL, {})
    /\ pending' = Resume(t)
    /\ UNCHANGED <<phase, mounted, store, env, svcUser, initPc, initUser, initCalls,
                   sub, cleanupDue, unsubs, currentView>>

(***************************************************************************)
(* The second registration of onAuthStateChange, lines 317-353: the draft  *)
(* of the effect's tail that the file still holds after signIn.  It        *)
(* registers unconditionally, its cleanup unsubscribes synchronously, and  *)
(* its handler awaits getCurrentUserProfile() outside any try/catch: when  *)
(* the fetch rejects, the promise of the async handler rejects and nothing *)
(* handles it.  Its steps belong to DraftNext, the effect with both        *)
(* registrations live; Next is the hook of the first draft alone.          *)
(***************************************************************************)
DraftTasks == {"draft:SIGNED_IN", "draft:TOKEN_REFRESHED"}

DraftTask(ev) == IF ev = "SIGNED_IN" THEN "draft:SIGNED_IN" ELSE "draft:TOKEN_REFRESHED"

\* authState after the draft handler's `await getCurrentUserProfile()`
\* resolved with r (lines 325-330, 340-345)
DraftAsyncState(task, u, r, prev) ==
    IF task = "draft:SIGNED_IN"
    THEN SettledState(u, r)
    ELSE [prev EXCEPT !.user = u, !.profile = r, !.error = NULL]

\* the change stream delivers event ev to the draft handler, lines 318-347
DraftDeliver(ev, u) ==
    /\ phase = "active"
    /\ ev = "SIGNED_OUT" => u = NULL
    /\ HandlerFetches(mounted, ev, u)
           => Suspended(HandlerTasks \cup DraftTasks) < MaxHandlers
    /\ svcUser' = SessionAfterEvent(ev, u, svcUser)
    /\ authState' = HandlerSyncState(mounted, ev, authState)
    /\ pending' = IF HandlerFetches(mounted, ev, u)
                  THEN Suspend(Task(DraftTask(ev), "profile", u))
                  ELSE pending
    /\ last' = Step("draft:deliver", "n/a", NULL,
                    IF HandlerFetches(mounted, ev, u) THEN {"getCurrentUserProfile"} ELSE {})
    /\ UNCHANGED <<phase, mounted, store, env, initPc, initUser, initCalls, sub,
                   cleanupDue, unsubs, currentView>>

\* the continuation of the draft handler's `await getCurrentUserProfile()`:
\* a rejection is thrown out of the async handler, unhandled
DraftProfileReturns(t) ==
    /\ IsPending(t)
    /\ t.task \in DraftTasks
    /\ \E r \in ProfileResults(svcUser) :
        /\ authState' = IF r = Rejected THEN authState
                        ELSE DraftAsyncState(t.task, t.user, r, authState)
        /\ last' = Step("draft:profile", IF r = Rejected THEN "unhandled" ELSE "resolved",
                        NULL, {})
    /\ pending' = Resume(t)
    /\ UNCHANGED <<phase, mounted, store, env, svcUser, initPc, initUser, initCalls,
                   sub, cleanupDue, unsubs, currentView>>

(***************************************************************************)
(* Mutation operations.  A call is made by the UI while the component is   *)
(* mounted; its continuations run whenever the awaited call settles.       *)
(* A step that returns from an operation reports the returned              *)
(* {success, error} and the external calls the invocation made.            *)
(***************************************************************************)
Returned(op, ok, err, calls) == Step(op, IF ok THEN "success" ELSE "failure", err, calls)

\* the UI can call an operation while the component is mounted
CanCall == phase = "active"

\* a call that reaches an await adds a suspended continuation
CanSuspend == Suspended(MutationTasks) < MaxMutations

(***************************************************************************)
(* signIn, lines 218-314.                                                  *)
(***************************************************************************)
Emails == {"demo", "user@example.com"}
Passwords == {"pass9981", "secret"}

\* mutant: the fallback credential is not special-cased
IsDemoCredential_Never(email, password) == FALSE

\* email === 'demo' && password === 'pass9981'
IsDemoCredential(email, password) == email = "demo" /\ password = "pass9981"

\* mutant: setItem('demoSession', ...) is missing
DemoStore_NoSession(st, n) ==
    [demoMode |-> IF n >= 2 THEN "true" ELSE st.demoMode,
     demoSession |-> st.demoSession,
     userProfile |-> IF n >= 1 THEN JSONstringify(demoProfile) ELSE st.userProfile]

\* localStorage after the first n of: setItem('userProfile'),
\* setItem('demoMode', 'true'), setItem('demoSession')
DemoStore(st, n) ==
    [demoMode |-> IF n >= 2 THEN "true" ELSE st.demoMode,
     demoSession |-> IF n >= 3 THEN JSONstringify(demoSession) ELSE st.demoSession,
     userProfile |-> IF n >= 1 THEN JSONstringify(demoProfile) ELSE st.userProfile]

\* the demo branch, lines 223-267; setItem number `fails` throws (0: none)
SignInDemo(fails) ==
    /\ store' = DemoStore(store, IF fails = 0 THEN 3 ELSE fails - 1)
    /\ authState' = IF fails = 0
                    THEN SettledState(demoSession.id, demoProfile)
                    ELSE Failing(Entering(authState), ErrDemoLogin)
    /\ last' = Returned("signIn", fails = 0, IF fails = 0 THEN NULL ELSE ErrDemoLogin, {})
    /\ UNCHANGED pending

\* the configuration check, lines 270-274
SignInUnconfigured ==
    /\ authState' = Failing(Entering(authState), ErrNotConfigured)
    /\ last' = Returned("signIn", FALSE, ErrNotConfigured, {})
    /\ UNCHANGED <<store, pending>>

SignIn(email, password) ==
    /\ CanCall
    /\ IF IsDemoCredential(email, password)
       THEN \E fails \in 0..3 : SignInDemo(fails)
       ELSE IF ~ConnConfigured(env)
            THEN SignInUnconfigured
            ELSE /\ CanSuspend
                 /\ authState' = Entering(authState)
                 /\ pending' = Suspend(Task("signIn", "signInWithPassword", NULL))
                 /\ last' = Did("signIn:call")
                 /\ UNCHANGED store
    /\ UNCHANGED <<phase, mounted, env, svcUser, initPc, initUser, initCalls, sub,
                   cleanupDue, unsubs, currentView>>

\* mutant: the service's message is replaced by a generic one
SignInErrorMessage_Generic(o) == IF o = "error" THEN ErrUnknown ELSE ErrThrown

\* error.message of the service's error value (lines 282-283), or the
\* message of the thrown fault (line 310)
SignInErrorMessage(o) == IF o = "error" THEN ErrService ELSE ErrThrown

\* the continuation of `await supabase.auth.signInWithPassword`, lines 281-308;
\* u is data.user (NULL: the service returned neither an error nor a user)
SignInPasswordReturns(t, o, u) ==
    /\ IsPending(t)
    /\ t = Task("signIn", "signInWithPassword", NULL)
    /\ IF o = "ok" /\ u # NULL
       THEN /\ svcUser' = u
            /\ pending' = Suspend(Task("signIn", "getCurrentUserProfile", u))
                              (-) SetToBag({t})
            /\ last' = Did("signIn:authenticated")
            /\ UNCHANGED authState
       ELSE /\ pending' = Resume(t)
            /\ UNCHANGED svcUser
            /\ IF o = "ok"
               THEN /\ UNCHANGED authState
                    /\ last' = Returned("signIn", FALSE, ErrUnknown, {"signInWithPassword"})
               ELSE /\ authState' = Failing(authState, SignInErrorMessage(o))
                    /\ last' = Returned("signIn", FALSE, SignInErrorMessage(o),
                                        {"signInWithPassword"})
    /\ UNCHANGED <<phase, mounted, store, env, initPc, initUser, initCalls, sub,
                   cleanupDue, unsubs, currentView>>

\* mutant: no inner try/catch, a rejected fetch lands in the catch of line 309
AfterSignInProfile_OuterCatch(r, u, prev) ==
    IF r = Rejected THEN Failing(prev, ErrThrown) ELSE SettledState(u, r)

\* authState after signIn's `await getCurrentUserProfile()` settled with r:
\* the profile (line 289), or null when it rejected (line 298)
AfterSignInProfile(r, u, prev) ==
    SettledState(u, IF r = Rejected THEN NoProfile ELSE r)

\* the continuation of signIn's `await getCurrentUserProfile()`, lines 288-305
SignInProfileReturns(t) ==
    /\ IsPending(t)
    /\ t.task = "signIn" /\ t.at = "getCurrentUserProfile"
    /\ \E r \in ProfileResults(svcUser) :
        /\ authState' = AfterSignInProfile(r, t.user, authState)
        /\ last' = Returned("signIn", TRUE, NULL,
                            {"signInWithPassword",
                             IF r = Rejected THEN "getCurrentUserProfile:rejected"
                                             ELSE "getCurrentUserProfile"})
    /\ pending' = Resume(t)
    /\ UNCHANGED <<phase, mounted, store, env, svcUser, initPc, initUser, initCalls,
                   sub, cleanupDue, unsubs, currentView>>

(***************************************************************************)
(* signUp, lines 389-447.                                                  *)
(***************************************************************************)
\* the call; seeded: profileData was passed
SignUp(seeded) ==
    /\ CanCall /\ CanSuspend
    /\ authState' = Entering(authState)
    /\ pending' = Suspend(Task("signUp", IF seeded THEN "signUp+profileData" ELSE "signUp", NULL))
    /\ last' = Did("signUp:call")
    /\ UNCHANGED <<phase, mounted, store, env, svcUser, initPc, initUser, initCalls,
                   sub, cleanupDue, unsubs, currentView>>

\* data.user && profileData: the profile row is upserted
SignUpSeeds(t, u) == u # NULL /\ t.at = "signUp+profileData"

\* setAuthState(prev => ({ ...prev, loading: false }))
SignUpDone(prev) == [prev EXCEPT !.loading = FALSE]

\* the continuation of `await supabase.auth.signUp`, lines 412-441
SignUpReturns(t, o, u) ==
    /\ IsPending(t)
    /\ t.task = "signUp" /\ t.at \in {"signUp", "signUp+profileData"}
    /\ IF o = "ok" /\ SignUpSeeds(t, u)
       THEN /\ pending' = Suspend(Task("signUp", "upsert", u)) (-) SetToBag({t})
            /\ last' = Did("signUp:registered")
            /\ UNCHANGED authState
       ELSE /\ pending' = Resume(t)
            /\ authState' = IF o = "ok" THEN SignUpDone(authState)
                            ELSE Failing(authState, IF o = "error" THEN ErrService ELSE ErrThrown)
            /\ last' = Returned("signUp", o = "ok",
                                IF o = "ok" THEN NULL
                                ELSE IF o = "error" THEN ErrService ELSE ErrThrown,
                                {"signUp"})
    /\ UNCHANGED <<phase, mounted, store, env, svcUser, initPc, initUser, initCalls,
                   sub, cleanupDue, unsubs, currentView>>

\* the continuation of `await supabase.from('user_profiles').upsert`,
\* lines 432-441: an error value and a thrown fault are only logged
SignUpUpsertReturns(t, o) ==
    /\ IsPending(t)
    /\ t.task = "signUp" /\ t.at = "upsert"
    /\ pending' = Resume(t)
    /\ authState' = SignUpDone(authState)
    /\ last' = Returned("signUp", TRUE, NULL, {"signUp", "upsert"})
    /\ UNCHANGED <<phase, mounted, store, env, svcUser, initPc, initUser, initCalls,
                   sub, cleanupDue, unsubs, currentView>>

(***************************************************************************)
(* signOut, lines 449-490.                                                 *)
(***************************************************************************)
\* mutant: signOut never takes the offline branch
InDemoMode_Never(st) == FALSE

\* localStorage.getItem('demoMode') === 'true'
InDemoMode(st) == st.demoMode = "true"

SignOut ==
    /\ CanCall
    /\ IF InDemoMode(store)
       THEN /\ store' = ClearedStore(store)
            /\ authState' = SignedOutState
            /\ last' = Returned("signOut", TRUE, NULL, {})
            /\ UNCHANGED pending
       ELSE /\ CanSuspend
            /\ authState' = Entering(authState)
            /\ pending' = Suspend(Task("signOut", "signOut", NULL))
            /\ last' = Did("signOut:call")
            /\ UNCHANGED store
    /\ UNCHANGED <<phase, mounted, env, svcUser, initPc, initUser, initCalls, sub,
                   cleanupDue, unsubs, currentView>>

\* mutant: the success write merges into the previous state
AfterSignOut_Merged(o, prev) ==
    IF o = "ok"
    THEN [prev EXCEPT !.user = NULL, !.loading = FALSE, !.error = NULL]
    ELSE Failing(prev, IF o = "error" THEN ErrService ELSE ErrThrown)

\* mutant: a failed sign-out collapses to signed-out, keeping the error
AfterSignOut_AssumesSuccess(o, prev) ==
    IF o = "ok" THEN SignedOutState
    ELSE Failing(SignedOutState, IF o = "error" THEN ErrService ELSE ErrThrown)

\* authState after `await supabase.auth.signOut()` settled with outcome o:
\* signed out (line 477), or the previous state with the error (470, 487)
AfterSignOut(o, prev) ==
    IF o = "ok" THEN SignedOutState
    ELSE Failing(prev, IF o = "error" THEN ErrService ELSE ErrThrown)

\* the continuation of `await supabase.auth.signOut()`, lines 469-489
SignOutReturns(t, o) ==
    /\ IsPending(t)
    /\ t.task = "signOut"
    /\ pending' = Resume(t)
    /\ authState' = AfterSignOut(o, authState)
    /\ IF o = "ok"
       THEN /\ svcUser' = NULL
            /\ store' = [store EXCEPT !.userProfile = Absent]
            /\ last' = Returned("signOut", TRUE, NULL, {"signOut"})
       ELSE /\ last' = Returned("signOut", FALSE,
                                IF o = "error" THEN ErrService ELSE ErrThrown, {"signOut"})
            /\ UNCHANGED <<svcUser, store>>
    /\ UNCHANGED <<phase, mounted, env, initPc, initUser, initCalls, sub, cleanupDue,
                   unsubs, currentView>>

(***************************************************************************)
(* updateProfile, lines 492-525.  authState.user is the value of the       *)
(* render the called closure belongs to: the state at the call.            *)
(***************************************************************************)
\* mutant: the identity check is missing
UpdatePreconditionFails_Never(user) == FALSE

\* if (!authState.user) throw new Error('User not authenticated')
UpdatePreconditionFails(user) == user = NULL

\* mutant: the success write replaces the whole state and drops the user
ProfileReplaced_DropsUser(prev, data) ==
    [user |-> NULL, profile |-> data, loading |-> FALSE, error |-> NULL]

\* setAuthState(prev => ({ ...prev, profile: data, loading: false, error: null }))
ProfileReplaced(prev, data) ==
    [prev EXCEPT !.profile = data, !.loading = FALSE, !.error = NULL]

UpdateProfile ==
    /\ CanCall
    /\ IF UpdatePreconditionFails(authState.user)
       THEN /\ authState' = Failing(Entering(authState), ErrNotAuthenticated)
            /\ last' = Returned("updateProfile", FALSE, ErrNotAuthenticated, {})
            /\ UNCHANGED pending
       ELSE /\ CanSuspend
            /\ authState' = Entering(authState)
            /\ pending' = Suspend(Task("updateProfile", "update", authState.user))
            /\ last' = Did("updateProfile:call")
    /\ UNCHANGED <<phase, mounted, store, env, svcUser, initPc, initUser, initCalls,
                   sub, cleanupDue, unsubs, currentView>>

\* the continuation of `await supabase.from('user_profiles').update`, lines 507-524
UpdateProfileReturns(t, o) ==
    /\ IsPending(t)
    /\ t.task = "updateProfile"
    /\ pending' = Resume(t)
    /\ authState' = IF o = "ok" THEN ProfileReplaced(authState, UpdatedProfile(t.user))
                    ELSE Failing(authState, IF o = "error" THEN ErrService ELSE ErrThrown)
    /\ last' = Returned("updateProfile", o = "ok",
                        IF o = "ok" THEN NULL
                        ELSE IF o = "error" THEN ErrService ELSE ErrThrown,
                        {"update"})
    /\ UNCHANGED <<phase, mounted, store, env, svcUser, initPc, initUser, initCalls,
                   sub, cleanupDue, unsubs, currentView>>

(***************************************************************************)
(* resetPassword, lines 527-542.                                           *)
(***************************************************************************)
ResetPassword ==
    /\ CanCall /\ CanSuspend
    /\ pending' = Suspend(Task("resetPassword", "resetPasswordForEmail", NULL))
    /\ last' = Did("resetPassword:call")
    /\ UNCHANGED <<authState, phase, mounted, store, env, svcUser, initPc, initUser,
                   initCalls, sub, cleanupDue, unsubs, currentView>>

\* mutant: a failed reset is written to AuthState like the other operations
ResetPasswordReturns_WritesError(t, o) ==
    /\ IsPending(t)
    /\ t.task = "resetPassword"
    /\ pending' = Resume(t)
    /\ authState' = IF o = "ok" THEN authState
                    ELSE Failing(authState, IF o = "error" THEN ErrService ELSE ErrThrown)
    /\ last' = Returned("resetPassword", o = "ok",
                        IF o = "ok" THEN NULL
                        ELSE IF o = "error" THEN ErrService ELSE ErrThrown,
                        {"resetPasswordForEmail"})
    /\ UNCHANGED <<phase, mounted, store, env, svcUser, initPc, initUser,
                   initCalls, sub, cleanupDue, unsubs, currentView>>

ResetPasswordReturns(t, o) ==
    /\ IsPending(t)
    /\ t.task = "resetPassword"
    /\ pending' = Resume(t)
    /\ last' = Returned("resetPassword", o = "ok",
                        IF o = "ok" THEN NULL
                        ELSE IF o = "error" THEN ErrService ELSE ErrThrown,
                        {"resetPasswordForEmail"})
    /\ UNCHANGED <<authState, phase, mounted, store, env, svcUser, initPc, initUser,
                   initCalls, sub, cleanupDue, unsubs, currentView>>

Next ==
    \/ Activate
    \/ InitSessionReturns
    \/ InitProfileReturns
    \/ Unmount
    \/ Teardown
    \/ Construct
    \/ \E ev \in Events, u \in Users \cup {NULL} : Deliver(ev, u)
    \/ \E t \in BagToSet(pending) : HandlerProfileReturns(t)
    \/ \E email \in Emails, password \in Passwords : SignIn(email, password)
    \/ \E t \in BagToSet(pending), o \in Outcomes, u \in Users \cup {NULL} :
           SignInPasswordReturns(t, o, u)
    \/ \E t \in BagToSet(pending) : SignInProfileReturns(t)
    \/ \E seeded \in BOOLEAN : SignUp(seeded)
    \/ \E t \in BagToSet(pending), o \in Outcomes, u \in Users \cup {NULL} :
           SignUpReturns(t, o, u)
    \/ \E t \in BagToSet(pending), o \in Outcomes : SignUpUpsertReturns(t, o)
    \/ SignOut
    \/ \E t \in BagToSet(pending), o \in Outcomes : SignOutReturns(t, o)
    \/ UpdateProfile
    \/ \E t \in BagToSet(pending), o \in Outcomes : UpdateProfileReturns(t, o)
    \/ ResetPassword
    \/ \E t \in BagToSet(pending), o \in Outcomes : ResetPasswordReturns(t, o)

Spec == Init /\ [][Next]_vars

TracedSpec == TracedInit /\ [][Next]_vars

\* the effect with the registration of lines 317-353 live beside the one of
\* lines 153-196: mount, initialization, both handlers, unmount
DraftNext ==
    \/ Activate
    \/ InitSessionReturns
    \/ InitProfileReturns
    \/ Unmount
    \/ Teardown
    \/ Construct
    \/ \E ev \in Events, u \in Users \cup {NULL} : Deliver(ev, u)
    \/ \E t \in BagToSet(pending) : HandlerProfileReturns(t)
    \/ \E ev \in Events, u \in Users \cup {NULL} : DraftDeliver(ev, u)
    \/ \E t \in BagToSet(pending) : DraftProfileReturns(t)

DraftSpec == TracedInit /\ [][DraftNext]_vars


(***************************************************************************)
(* AuthWrapper, components/AuthWrapper.tsx.  The wrapper reads fields of   *)
(* user and profile that the model of the hook abstracts away              *)
(* (email_confirmed_at, onboarding_completed): under WrapperSpec authState *)
(* ranges over HookOutputs, which carry them, and the hook's own steps are *)
(* replaced by UseAuth, the hook handing a new AuthState to the wrapper.   *)
(***************************************************************************)
\* the values of currentView the switch of lines 96-109 tells apart
Views == {"login", "register", "register-success", "email-confirmed", "onboarding",
          "password-reset"}

\* user: null as the wrapper sees it (no id, no email_confirmed_at)
NoUser == [id |-> NULL, email_confirmed_at |-> NULL]

\* session.user as the wrapper sees it
SessionUsers == [id : Users \cup {DemoUserId}, email_confirmed_at : {NULL, "t"}]

\* profile as the wrapper sees it: null, {} or a row
WrapperProfiles ==
    {NoProfile, EmptyObject}
        \cup [id : Users \cup {DemoUserId}, onboarding_completed : BOOLEAN]

\* what useAuth() spreads into its return value (useAuth.ts line 545)
HookOutputs ==
    [user : {NoUser} \cup SessionUsers, profile : WrapperProfiles, loading : BOOLEAN,
     error : {NULL, ErrService}]

\* isAuthenticated: !!authState.user
isAuthenticated(a) == a.user # NoUser

\* isEmailConfirmed: !!authState.user?.email_confirmed_at
isEmailConfirmed(a) == a.user # NoUser /\ a.user.email_confirmed_at # NULL

\* isOnboardingCompleted: !!authState.profile?.onboarding_completed
isOnboardingCompleted(a) ==
    /\ a.profile # NoProfile
    /\ "onboarding_completed" \in DOMAIN a.profile
    /\ a.profile.onboarding_completed

\* currentView after the effect of lines 43-63 ran
EffectView(a, st, cv) ==
    IF a.loading THEN cv
    ELSE IF st.demoMode = "true" THEN cv
    ELSE IF isAuthenticated(a) /\ a.user # NoUser
         THEN (IF ~isEmailConfirmed(a) THEN "login"
               ELSE IF ~isOnboardingCompleted(a) THEN "onboarding"
               ELSE cv)
         ELSE "login"

\* the dependency list of that effect (line 63)
EffectDeps(a) ==
    <<isAuthenticated(a), a.user, a.profile, a.loading, isEmailConfirmed(a),
      isOnboardingCompleted(a)>>

\* what the wrapper returns, lines 77-109
Rendered(a, st, cv) ==
    IF a.loading THEN "spinner"
    ELSE IF isAuthenticated(a) \/ st.demoMode = "true" THEN "Dashboard"
    ELSE CASE cv = "register" -> "Register"
           [] cv = "register-success" -> "RegisterSuccess"
           [] cv = "email-confirmed" -> "EmailConfirmed"
           [] cv = "onboarding" -> "Onboarding"
           [] cv = "password-reset" -> "PasswordReset"
           [] OTHER -> "Login"

\* the hook leaves localStorage with demoMode = flag and hands AuthState a to
\* the wrapper: the wrapper renders, and the effect runs if a dependency changed
UseAuth(a, flag) ==
    /\ authState' = a
    /\ store' = [store EXCEPT !.demoMode = flag]
    /\ currentView' = IF EffectDeps(a) # EffectDeps(authState)
                      THEN EffectView(a, store', currentView)
                      ELSE currentView
    /\ UNCHANGED <<phase, mounted, env, svcUser, initPc, initUser, initCalls, sub,
                   cleanupDue, unsubs, pending, last>>

\* navigateToView, lines 73-75, called by the child view that is rendered
navigateToView(view) ==
    /\ Rendered(authState, store, currentView) \notin {"spinner", "Dashboard"}
    /\ currentView' = view
    /\ UNCHANGED <<authState, phase, mounted, store, env, svcUser, initPc, initUser,
                   initCalls, sub, cleanupDue, unsubs, pending, last>>

WrapperNext ==
    \/ \E a \in HookOutputs, flag \in {"absent", "true"} : UseAuth(a, flag)
    \/ \E view \in Views : navigateToView(view)

\* the wrapper's first render: useState('login'), the hook's initial AuthState
\* (the wrapper reads neither the environment nor the service)
WrapperInit ==
    /\ authState = [InitialAuthState EXCEPT !.user = NoUser]
    /\ currentView = "login"
    /\ store \in StoreValues
    /\ env = [url |-> "https://proj.supabase.co", key |-> "anon-key"]
    /\ svcUser = NULL
    /\ phase = "constructed" /\ mounted = TRUE
    /\ initPc = "idle" /\ initUser = NULL /\ initCalls = {}
    /\ sub = "none" /\ cleanupDue = FALSE /\ unsubs = 0
    /\ pending = EmptyBag
    /\ last = Untraced

WrapperSpec == WrapperInit /\ [][WrapperNext]_vars

(***************************************************************************)
(*                              Claims                                     *)
(***************************************************************************)
MutationReturned ==
    /\ last.op \in {"signIn", "signUp", "signOut", "updateProfile"}
    /\ last.ret \in {"success", "failure"}

\* C1: once the promise returned by signIn, signUp, signOut or updateProfile
\* has settled, on whatever return path, and no other mutation is pending,
\* authState.loading is false.
C1_LoadingFalseOnceSettled ==
    (MutationReturned /\ ~MutationPending) => ~authState.loading

\* C2: in every reachable AuthState, profile is null whenever user is null.
C2_NoProfileWithoutIdentity ==
    authState.user = NULL => authState.profile = NoProfile

\* C3: from deactivation on (mounted = false, until a fresh activation) no
\* step writes AuthState.
C3_NoWriteAfterDeactivation ==
    [][(~mounted /\ ~mounted') => authState' = authState]_vars

\* C4: change-stream events are applied last-write-wins by arrival order; in
\* the claim's own instance: when SIGNED_OUT is the event delivered last
\* (it was the previous step) and the continuation of an earlier SIGNED_IN
\* handler now runs, leaving no handler suspended, the state stays signed out.
C4_LastDeliveredEventWins ==
    [][(/\ last.op = "SIGNED_OUT" /\ mounted
        /\ last'.op = "SIGNED_IN:profile"
        /\ Suspended(HandlerTasks)' = 0)
       => authState'.user = NULL]_vars

\* C5: while active, handling a SIGNED_OUT event sets AuthState to
\* {user: null, profile: null, loading: false, error: null}, whatever ran
\* before and whatever is still pending.
C5_SignedOutEventResets ==
    (last.op = "SIGNED_OUT" /\ mounted) => authState = SignedOutState

\* C5 witness: SIGNED_OUT was just handled while initialization and a
\* mutation were both still suspended.
C5_Witness ==
    /\ last.op = "SIGNED_OUT" /\ mounted
    /\ MutationPending
    /\ initPc \in {"getSession", "profile"}

\* the awaited calls of getInitialSession eventually settle
InitFairness == WF_vars(InitSessionReturns) /\ WF_vars(InitProfileReturns)

LiveSpec == Init /\ [][Next]_vars /\ InitFairness

\* C6: initialization terminates, and the step that ends it while the
\* component is mounted leaves loading = false, on every exit path.
C6_InitEndsNotLoading ==
    /\ [][(initPc # "done" /\ initPc' = "done" /\ mounted') => ~authState'.loading]_vars
    /\ (initPc \in {"getSession", "profile"}) ~> (initPc = "done")

\* C6 witness: initialization ended, mounted, through getSession and a
\* rejected profile fetch, while a mutation that set loading is suspended.
C6_Witness ==
    /\ initPc = "done" /\ mounted
    /\ initCalls = {"getSession", "getCurrentUserProfile"}
    /\ authState = SettledState(initUser, NoProfile)
    /\ MutationPending

\* C7 as claimed: updateProfile called while user is null returns
\* {success: false, error: precondition message}, calls no service and
\* leaves AuthState as it was.
C7_UpdateWithoutIdentityChangesNothing ==
    [][(authState.user = NULL /\ UpdateProfile)
       => /\ last'.ret = "failure" /\ last'.err = ErrNotAuthenticated
          /\ last'.calls = {} /\ pending' = pending
          /\ authState' = authState]_vars

\* C7 amended: ... leaves user and profile as they were and writes
\* loading = false and error = the precondition message.
C7_UpdateWithoutIdentityFails ==
    [][(authState.user = NULL /\ UpdateProfile)
       => /\ last'.ret = "failure" /\ last'.err = ErrNotAuthenticated
          /\ last'.calls = {} /\ pending' = pending
          /\ authState' = [authState EXCEPT !.loading = FALSE,
                                            !.error = ErrNotAuthenticated]]_vars

\* C7 witness: updateProfile has just failed on the precondition while
\* initialization is still awaiting getSession.
C7_Witness ==
    /\ last.op = "updateProfile" /\ last.err = ErrNotAuthenticated
    /\ authState.user = NULL
    /\ authState.error = ErrNotAuthenticated
    /\ initPc = "getSession"

\* C8 as claimed: with the presence flag and a parseable cached session in
\* the store, activation adopts the cached user and the cached profile (read
\* as the code reads it, '{}' when none is stored) with loading false and
\* error null, and calls neither getSession nor the profile fetch.
C8_OfflineSessionAdopted ==
    [][(Activate /\ store.demoMode = "true" /\ store.demoSession.kind = "json")
       => /\ authState' = SettledState(JSONparse(store.demoSession).id,
                              IF store.userProfile.kind = "absent"
                              THEN EmptyObject ELSE JSONparse(store.userProfile))
          /\ initPc' = "done" /\ initCalls' = {}]_vars

\* C8 amended: the same, provided the cached profile snapshot, when one is
\* stored, parses too.
C8_OfflinePairAdopted ==
    [][(/\ Activate /\ store.demoMode = "true" /\ store.demoSession.kind = "json"
        /\ store.userProfile.kind # "corrupt")
       => /\ authState' = SettledState(JSONparse(store.demoSession).id,
                              IF store.userProfile.kind = "absent"
                              THEN EmptyObject ELSE JSONparse(store.userProfile))
          /\ initPc' = "done" /\ initCalls' = {}]_vars

\* C8 witness: in a configured environment initialization is over without
\* any call, the offline identity and the cached profile adopted.
C8_Witness ==
    /\ phase = "active" /\ initPc = "done" /\ initCalls = {}
    /\ InitConfigured(env)
    /\ authState = SettledState(DemoUserId, earlierProfile)
    /\ store.userProfile = JSONstringify(earlierProfile)

\* C9: when the offline pair is read at activation and the cached session
\* or the cached profile fails to parse, the three keys are removed,
\* initialization goes on to the configuration check (signed out if
\* unconfigured, getSession otherwise) and AuthState.error stays null.
C9_CorruptCacheCleared ==
    [][(/\ store.demoMode = "true" /\ store.demoSession.kind # "absent"
        /\ (store.demoSession.kind = "corrupt" \/ store.userProfile.kind = "corrupt")
        /\ Activate)
       => /\ store' = emptyStore
          /\ authState'.error = NULL
          /\ authState'.user = NULL
          /\ IF Falsy(env.url) \/ Falsy(env.key) \/ IncludesDemo(env.url)
             THEN initPc' = "done" /\ authState' = SignedOutState
             ELSE initPc' = "getSession" /\ initCalls' = {"getSession"}]_vars

\* C9 witness: activation has just removed the keys of a cache that failed
\* to parse and gone on to call getSession.
C9_Witness ==
    /\ last.op = "activate" /\ last.calls = {"removeItem", "getSession", "onAuthStateChange"}
    /\ store = emptyStore
    /\ initPc = "getSession" /\ authState = InitialAuthState

\* C10: in an unconfigured environment (no url, no key, or a placeholder
\* url) with no offline session cached, activation ends initialization
\* without any call and AuthState is {null, null, false, null}.
C10_UnconfiguredSignedOut ==
    [][(/\ Activate
        /\ Falsy(env.url) \/ Falsy(env.key) \/ IncludesDemo(env.url)
        /\ ~(store.demoMode = "true" /\ store.demoSession.kind # "absent"))
       => /\ authState' = SignedOutState
          /\ initPc' = "done" /\ initCalls' = {}]_vars

\* C10 witness: only the key is missing; initialization is over without a
\* call and the state is signed out.
C10_Witness ==
    /\ phase = "active" /\ initPc = "done" /\ initCalls = {}
    /\ Falsy(env.key) /\ ~Falsy(env.url) /\ ~IncludesDemo(env.url)
    /\ authState = SignedOutState
    /\ pending = EmptyBag

\* C11: the change-stream subscription is registered at most once per
\* activation (only the activation step registers), and activation
\* registers exactly when the service is configured as initialization
\* step 2 tests it: url present, key present, url not a placeholder.
C11_SubscribedIffConfigured ==
    [][/\ Activate =>
            ((sub' # "none") <=>
                ~(Falsy(env.url) \/ Falsy(env.key) \/ IncludesDemo(env.url)))
       /\ (sub' = "active" /\ sub # "active") => Activate]_vars

\* the store holding the presence flag and the pair signIn builds
C12_FallbackStore ==
    [demoMode |-> "true", demoSession |-> JSONstringify(demoSession),
     userProfile |-> JSONstringify(demoProfile)]

\* a fresh activation over that store adopts the identity signIn adopted,
\* loading false and error null, and initialization makes no call
C12_Readopts ==
    (store = C12_FallbackStore /\ Activate)
        => /\ authState' = SettledState(demoSession.id, demoProfile)
           /\ initPc' = "done" /\ initCalls' = {}

\* C12 as claimed: signIn with the fallback credential returns
\* {success: true} and leaves the flag, the session and the profile in the
\* store; a later fresh activation over that store adopts the same identity
\* with loading false and error null without calling the identity service.
C12_FallbackSignInRoundTrip ==
    [][/\ (last'.op \in {"signIn", "signIn:call"} /\ SignIn("demo", "pass9981"))
            => /\ last'.ret = "success"
               /\ store' = C12_FallbackStore
               /\ authState'.user = demoSession.id
       /\ C12_Readopts]_vars

\* C12 amended: the same when localStorage accepts the three writes; when a
\* setItem throws, signIn returns {success: false} with the fixed
\* demo-login message, which is also AuthState.error, loading is false and
\* the cached session is not written.
C12_FallbackSignInRoundTripOrFails ==
    [][/\ (last'.op \in {"signIn", "signIn:call"} /\ SignIn("demo", "pass9981"))
            => \/ /\ last'.ret = "success"
                  /\ store' = C12_FallbackStore
                  /\ authState'.user = demoSession.id
               \/ /\ last'.ret = "failure" /\ last'.err = ErrDemoLogin
                  /\ authState' = Failing(authState, ErrDemoLogin)
                  /\ store'.demoSession = store.demoSession
       /\ C12_Readopts]_vars

\* C12 witness: a fresh activation has just adopted, without any call of
\* initialization, the pair that signIn wrote in a previous activation (the
\* pair carries signIn's timestamps, not those of the initial store).
C12_Witness ==
    /\ last.op = "activate" /\ last.calls = {"onAuthStateChange"}
    /\ store = C12_FallbackStore
    /\ authState = SettledState(DemoUserId, demoProfile)
    /\ initPc = "done" /\ initCalls = {}

\* C13: when getSession returned a session and the profile fetch of
\* initialization then rejects (while mounted), the write that ends
\* initialization is {user: session user, profile: null, loading: false,
\* error: null}.
C13_InitProfileFailureKeepsIdentity ==
    [][(last'.ret = "rejected" /\ mounted /\ InitProfileReturns)
       => authState' = SettledState(initUser, NoProfile)]_vars

\* C13 witness: initialization has just ended on a rejected profile fetch
\* with nothing else pending, the session user held with a null profile.
C13_Witness ==
    /\ last.op = "init:profile" /\ last.ret = "rejected" /\ mounted
    /\ initCalls = {"getSession", "getCurrentUserProfile"}
    /\ initUser \in Users
    /\ authState = SettledState(initUser, NoProfile)
    /\ pending = EmptyBag

\* C14: a TOKEN_REFRESHED event whose profile re-fetch fails leaves
\* AuthState as it was: neither the handler's entry nor its continuation
\* after the rejected fetch writes any field.
C14_FailedRefreshChangesNothing ==
    [][/\ last'.op = "TOKEN_REFRESHED" => authState' = authState
       /\ (last'.op = "TOKEN_REFRESHED:profile" /\ last'.ret = "rejected")
            => authState' = authState]_vars

\* C14 witness: the re-fetch of a TOKEN_REFRESHED handler has just rejected
\* while a user and a profile are held.
C14_Witness ==
    /\ last.op = "TOKEN_REFRESHED:profile" /\ last.ret = "rejected"
    /\ authState.user \in Users
    /\ authState.profile = DbProfile(authState.user)

\* C15: a TOKEN_REFRESHED event whose profile re-fetch succeeds changes only
\* user and profile: loading and error after the handler's write equal
\* their values before it.
C15_RefreshKeepsLoadingAndError ==
    [][(last'.op = "TOKEN_REFRESHED:profile" /\ last'.ret = "resolved")
       => /\ authState'.loading = authState.loading
          /\ authState'.error = authState.error]_vars

\* C16: no asynchronous path ends in an unhandled rejection: whenever an
\* awaited profile fetch or service call rejects, the step that resumes the
\* handler, the initialization or the mutation catches it.
C16_NoUnhandledRejection == last.ret # "unhandled"

\* the step in which a signOut call returns its {success, error}
C17_SignOutReturns ==
    /\ last'.ret \in {"success", "failure"}
    /\ SignOut \/ \E t \in BagToSet(pending), o \in Outcomes : SignOutReturns(t, o)

C19_UnconfiguredSignInFails ==
    [][(/\ \E email \in Emails, password \in Passwords :
              ~IsDemoCredential(email, password) /\ SignIn(email, password)
        /\ Falsy(env.url) \/ Falsy(env.key) \/ IncludesDemo(env.url))
       => /\ last'.ret = "failure" /\ last'.err = ErrNotConfigured
          /\ pending' = pending]_vars

\* C20 as claimed: signIn with the fallback credential calls neither the
\* identity service nor the profile service, configured or not, and ends
\* with AuthState = {offline user, offline profile, loading false, error null}.
C20_FallbackSignInBypassesService ==
    [][(last'.op \in {"signIn", "signIn:call"} /\ SignIn("demo", "pass9981"))
       => /\ last'.calls = {} /\ pending' = pending /\ svcUser' = svcUser
          /\ authState' = SettledState(DemoUserId, demoProfile)]_vars

\* C20 amended: it calls no service in any case, and ends with that state
\* when localStorage accepts the three writes; when a setItem throws it ends
\* with the previous user and profile, loading false and the fixed
\* demo-login error.
C20_FallbackSignInBypassesServiceOrFails ==
    [][(last'.op \in {"signIn", "signIn:call"} /\ SignIn("demo", "pass9981"))
       => /\ last'.calls = {} /\ pending' = pending /\ svcUser' = svcUser
          /\ \/ /\ last'.ret = "success"
                /\ authState' = SettledState(DemoUserId, demoProfile)
             \/ /\ last'.ret = "failure"
                /\ authState' = Failing(authState, ErrDemoLogin)]_vars

\* C20 witness: in a configured environment with a service session, while
\* initialization is still awaiting getSession, the fallback signIn has
\* just succeeded without any call.
C20_Witness ==
    /\ last.op = "signIn" /\ last.ret = "success" /\ last.calls = {}
    /\ InitConfigured(env) /\ svcUser \in Users
    /\ initPc = "getSession"
    /\ authState = SettledState(DemoUserId, demoProfile)

\* C21: a failed profile fetch never fails the enclosing operation: signIn
\* whose profile fetch rejects after a successful password authentication
\* returns {success: true} with {user, profile: null, loading: false,
\* error: null}, and the SIGNED_IN handler whose profile fetch rejects
\* writes the same state for the event's user.
C21_ProfileGapNeverFails ==
    [][/\ \A t \in BagToSet(pending) :
            ("getCurrentUserProfile:rejected" \in last'.calls /\ SignInProfileReturns(t))
                => /\ last'.ret = "success"
                   /\ authState' = SettledState(t.user, NoProfile)
       /\ \A t \in BagToSet(pending) :
            (/\ last'.ret = "rejected" /\ t.task = "SIGNED_IN"
             /\ HandlerProfileReturns(t))
                => authState' = SettledState(t.user, NoProfile)]_vars

\* C21 witness: signIn has just returned {success: true} after a rejected
\* profile fetch, the authenticated user held with a null profile.
C21_Witness ==
    /\ last.op = "signIn" /\ last.ret = "success"
    /\ last.calls = {"signInWithPassword", "getCurrentUserProfile:rejected"}
    /\ authState.user \in Users
    /\ authState = SettledState(authState.user, NoProfile)

\* C22: when signIn, signUp, signOut or updateProfile returns
\* {success: true}, AuthState.error is null, whatever an earlier or a
\* concurrently failing operation wrote.
C22_NoErrorAfterSuccess ==
    (MutationReturned /\ last.ret = "success") => authState.error = NULL

\* C23: initialization never writes a non-null AuthState.error; while
\* mounted, the configuration gap at activation and every way getSession
\* ends initialization (error value, thrown fault, no session) write
\* {user: null, profile: null, loading: false, error: null}.
C23_InitNeverSurfacesError ==
    [][/\ (/\ last'.op \in {"activate", "init:getSession", "init:profile"}
           /\ (Activate \/ InitSessionReturns \/ InitProfileReturns))
            => (authState' = authState \/ authState'.error = NULL)
       /\ (initPc' = "done" /\ ~AdoptsOffline(store) /\ Activate)
            => authState' = SignedOutState
       /\ (initPc' = "done" /\ mounted /\ InitSessionReturns)
            => authState' = SignedOutState]_vars

\* C23 witness: getSession has just ended initialization although the
\* service holds a session (so it returned an error value or threw), and
\* the state is signed out without an error.
C23_Witness ==
    /\ last.op = "init:getSession" /\ initPc = "done" /\ mounted
    /\ svcUser \in Users
    /\ authState = SignedOutState

\* C24: resetPassword leaves AuthState as it is, at the call and when the
\* service call settles (success, error value or thrown fault); the outcome
\* is only in the returned {success, error}.
C24_ResetPasswordLeavesState ==
    [][/\ (last'.op = "resetPassword:call" /\ ResetPassword) => authState' = authState
       /\ \A t \in BagToSet(pending), o \in Outcomes :
            (last'.op = "resetPassword" /\ ResetPasswordReturns(t, o))
                => /\ authState' = authState
                   /\ last'.ret = (IF o = "ok" THEN "success" ELSE "failure")
                   /\ last'.err = (IF o = "ok" THEN NULL
                                   ELSE IF o = "error" THEN ErrService ELSE ErrThrown)]_vars

\* C24 witness: resetPassword has just returned a thrown fault while
\* initialization is still loading; nothing of it is in AuthState.
C24_Witness ==
    /\ last.op = "resetPassword" /\ last.ret = "failure" /\ last.err = ErrThrown
    /\ authState = InitialAuthState
    /\ initPc = "getSession"

\* C25: registration succeeds independently of profile seeding: when the
\* upsert that follows a successful registration returns an error or
\* throws, signUp still returns {success: true}, with loading false and
\* error null.
C25_RegisterSucceedsWithoutSeeding ==
    [][\A t \in BagToSet(pending), o \in {"error", "thrown"} :
            SignUpUpsertReturns(t, o)
                => /\ last'.ret = "success"
                   /\ ~authState'.loading
                   /\ authState'.error = NULL]_vars

\* cleanup.then(...) is a reaction on a promise that is already resolved:
\* it runs
TeardownFairness == WF_vars(Teardown)

TeardownSpec == Init /\ [][Next]_vars /\ TeardownFairness

\* C26: on deactivation a registered subscription is unsubscribed exactly
\* once, and eventually; when registration was skipped or threw, teardown
\* unsubscribes nothing and changes nothing else.
C26_UnsubscribedOnceOnTeardown ==
    /\ [][/\ unsubs' <= 1
          /\ (Teardown /\ sub = "active") => (unsubs' = unsubs + 1 /\ sub' = "closed")
          /\ (Teardown /\ sub # "active") => (unsubs' = unsubs /\ sub' = sub)
          /\ unsubs' > unsubs => Teardown]_vars
    /\ (cleanupDue /\ sub = "active") ~> (~cleanupDue /\ sub = "closed" /\ unsubs = 1)

\* C26 witness: after deactivation the registered subscription has been
\* unsubscribed once, while a mutation continuation is still suspended.
C26_Witness ==
    /\ phase = "disposed" /\ ~cleanupDue
    /\ sub = "closed" /\ unsubs = 1
    /\ MutationPending

\* C27: getSession is requested before the subscription is registered: in
\* every state in which a change-stream event can be handled (a
\* registration exists, the effect has run), initialization has run its
\* synchronous part, and if it is on the remote path its getSession
\* request is among the calls already made.
C27_SessionRequestedBeforeSubscription ==
    (sub # "none" \/ phase = "active")
        => /\ initPc # "idle"
           /\ initPc \in {"getSession", "profile"} => "getSession" \in initCalls

\* C27 witness: an event was delivered and its SIGNED_IN handler is
\* suspended while the getSession request of initialization is in flight.
C27_Witness ==
    /\ sub = "active" /\ initPc = "getSession" /\ initCalls = {"getSession"}
    /\ \E t \in BagToSet(pending) : t.task = "SIGNED_IN"

\* C28: signOut that finds the presence flag set removes the flag, the
\* cached session and the cached profile, writes {null, null, loading
\* false, error null}, returns {success: true} and does not call the
\* service sign-out.
C28_OfflineSignOutClearsStore ==
    [][(store.demoMode = "true" /\ SignOut)
       => /\ store' = emptyStore
          /\ authState' = SignedOutState
          /\ last'.ret = "success" /\ last'.calls = {}
          /\ pending' = pending /\ svcUser' = svcUser]_vars

\* C28 witness: signOut has just short-circuited: the store is empty, the
\* state signed out, and the service, never called, still holds its session.
C28_Witness ==
    /\ last.op = "signOut" /\ last.ret = "success" /\ last.calls = {}
    /\ store = emptyStore /\ authState = SignedOutState
    /\ svcUser \in Users

\* C29: when the service rejects signIn with an error value, that error's
\* message is what signIn returns in {success: false, error} and what it
\* writes to AuthState.error, with loading false.
C29_RejectionSurfacedVerbatim ==
    [][\A t \in BagToSet(pending), u \in Users \cup {NULL} :
            (last'.op = "signIn" /\ SignInPasswordReturns(t, "error", u))
                => /\ last'.ret = "failure" /\ last'.err = ErrService
                   /\ authState' = [authState EXCEPT !.loading = FALSE,
                                                     !.error = ErrService]]_vars

\* C29 witness: signIn has just been rejected by the service; its message
\* is returned and is AuthState.error, loading false.
C29_Witness ==
    /\ last.op = "signIn" /\ last.ret = "failure" /\ last.err = ErrService
    /\ last.calls = {"signInWithPassword"}
    /\ authState.error = ErrService /\ ~authState.loading

\* C30: updateProfile called with a user held: when the update succeeds,
\* profile becomes the returned row and user is unchanged; when it fails
\* (error value or thrown fault), user and profile are unchanged, error is
\* the failure's message and the call returns {success: false}.
C30_UpdateProfileFrame ==
    [][\A t \in BagToSet(pending) :
        /\ (last'.op = "updateProfile" /\ UpdateProfileReturns(t, "ok"))
            => /\ last'.ret = "success"
               /\ authState'.profile = UpdatedProfile(t.user)
               /\ authState'.user = authState.user
        /\ \A o \in {"error", "thrown"} :
            (last'.op = "updateProfile" /\ UpdateProfileReturns(t, o))
                => /\ last'.ret = "failure"
                   /\ last'.err = (IF o = "error" THEN ErrService ELSE ErrThrown)
                   /\ authState' = [authState EXCEPT !.loading = FALSE,
                                                     !.error = last'.err]]_vars

\* C30 witness: updateProfile has just succeeded for the user held; the
\* profile is the returned row.
C30_Witness ==
    /\ last.op = "updateProfile" /\ last.ret = "success"
    /\ authState.user \in Users
    /\ authState = SettledState(authState.user, UpdatedProfile(authState.user))

\* C31: whenever AuthState holds a user and a profile record (null and the
\* empty object read from an absent snapshot aside), the profile's id is
\* the user's id.
C31_ProfileBelongsToUser ==
    (authState.user # NULL /\ authState.profile \notin {NoProfile, EmptyObject})
        => authState.profile.id = authState.user

\* C32: a successful signIn for user U and the SIGNED_IN event for U
\* converge: each of the two final writes, so whichever lands last, leaves
\* AuthState with user U, loading false and error null.
C32_SignInAndEventConverge ==
    [][\A t \in BagToSet(pending) :
        (\/ last'.op = "signIn" /\ SignInProfileReturns(t)
         \/ last'.op = "SIGNED_IN:profile" /\ HandlerProfileReturns(t))
            => /\ authState'.user = t.user
               /\ ~authState'.loading
               /\ authState'.error = NULL]_vars

\* C32 witness: signIn for a user has just returned {success: true} while
\* the SIGNED_IN handler for the same user is still awaiting its profile
\* fetch: its write will land last.
C32_Witness ==
    /\ last.op = "signIn" /\ last.ret = "success"
    /\ authState.user \in Users /\ ~authState.loading /\ authState.error = NULL
    /\ \E t \in BagToSet(pending) : t.task = "SIGNED_IN" /\ t.user = authState.user

\* C33: once signIn has returned {success: true}, AuthState.user stays
\* non-null until a signOut or a SIGNED_OUT event; stated for the step that
\* follows the return: unless that step belongs to a signOut, handles
\* SIGNED_OUT or constructs the hook anew, the user is still held after it.
C33_AuthenticatedUntilSignOut ==
    [][(/\ last.op = "signIn" /\ last.ret = "success" /\ authState.user # NULL
        /\ last'.op \notin {"signOut:call", "signOut", "SIGNED_OUT", "construct"})
       => authState'.user # NULL]_vars

\* C34: a signOut called while AuthState holds an identity of the Identity
\* Service (not the offline identity) calls supabase.auth.signOut() before it
\* reports success.
C34_RemoteSignOutCallsService ==
    [][(/\ authState.user \in Users
        /\ last'.op = "signOut" /\ last'.ret = "success"
        /\ (SignOut \/ \E t \in BagToSet(pending) : SignOutReturns(t, "ok")))
       => "signOut" \in last'.calls]_vars

\* the hook constructed in a browser whose localStorage holds none of the
\* three keys
FreshInit == Init /\ store = emptyStore

FreshSpec == FreshInit /\ [][Next]_vars

\* C35: starting from an empty store, whenever no operation, handler or
\* initialization step is pending, demoMode and demoSession are both present
\* or both absent, and demoMode present implies userProfile present.
C35_StoreKeysPaired ==
    (pending = EmptyBag /\ initPc \in {"idle", "done"})
        => /\ (store.demoMode # "absent") <=> (store.demoSession # Absent)
           /\ (store.demoMode # "absent") => (store.userProfile # Absent)

\* C36: whenever the store holds the presence flag (with a readable cached
\* session and profile) and the active hook has no operation, handler or
\* initialization step pending, AuthState.user is the offline identity.
C36_FlagMeansOfflineIdentity ==
    (/\ phase = "active" /\ initPc = "done" /\ pending = EmptyBag
     /\ HasOfflineSession(store) /\ ~OfflineParseFails(store)
     /\ store.userProfile # Absent)
        => authState.user = DemoUserId

\* C37: an event that is none of SIGNED_IN, SIGNED_OUT, TOKEN_REFRESHED, and a
\* SIGNED_IN or TOKEN_REFRESHED event without a session user, leaves
\* authState unchanged and starts no profile fetch.
C37_IgnoredEventsChangeNothing ==
    [][\A ev \in Events, u \in Users \cup {NULL} :
        (/\ last'.op = ev
         /\ \/ ev \notin {"SIGNED_IN", "SIGNED_OUT", "TOKEN_REFRESHED"}
            \/ ev \in {"SIGNED_IN", "TOKEN_REFRESHED"} /\ u = NULL
         /\ Deliver(ev, u))
            => /\ authState' = authState
               /\ pending' = pending
               /\ "getCurrentUserProfile" \notin last'.calls]_vars

C37_Witness ==
    /\ mounted /\ sub = "active"
    /\ last.op \in {"SIGNED_IN", "TOKEN_REFRESHED"} /\ last.calls = {}
    /\ authState.user \in Users /\ pending = EmptyBag

\* C38: the step in which signIn returns a failure, and the step in which
\* signUp returns (success or failure), leave authState.user and
\* authState.profile as they were just before it.
C38_FailureKeepsIdentity ==
    [][(\/ last'.op = "signIn" /\ last'.ret = "failure"
        \/ last'.op = "signUp" /\ last'.ret \in {"success", "failure"})
       => /\ authState'.user = authState.user
          /\ authState'.profile = authState.profile]_vars

C38_Witness ==
    /\ last.op = "signIn" /\ last.ret = "failure"
    /\ last.err \in {ErrNotConfigured, ErrService, ErrThrown}
    /\ authState.user \in Users /\ authState.profile = DbProfile(authState.user)
    /\ authState.error = last.err

\* C39: AuthWrapper renders the Dashboard only when loading is false, and
\* outside demo mode only for a user whose email is confirmed and whose
\* onboarding is completed; outside demo mode a user with unconfirmed email
\* gets the login view and one with incomplete onboarding the onboarding view.
C39_DashboardOnlyWhenEntitled ==
    LET shown == Rendered(authState, store, currentView)
        remote == ~authState.loading /\ store.demoMode # "true"
                      /\ isAuthenticated(authState)
    IN  /\ shown = "Dashboard" => ~authState.loading
        /\ (shown = "Dashboard" /\ store.demoMode # "true")
               => isEmailConfirmed(authState) /\ isOnboardingCompleted(authState)
        /\ (remote /\ ~isEmailConfirmed(authState)) => shown = "Login"
        /\ (remote /\ isEmailConfirmed(authState) /\ ~isOnboardingCompleted(authState))
               => shown = "Onboarding"

=============================================================================
